---- MODULE Spec2Model ----
(***************************************************************************)
(* Model of the GoTutor live-game pipeline:                                *)
(*   real_ogs_connector.py  RealOGSConnector (socket.io framing, monitor   *)
(*                          loop), OGSGameParser (normalisation),          *)
(*                          LiveOGSTutor (sampling policy, tutoring pass)  *)
(*   enhanced_go_tutor.py   Move, JosekiDatabase, EnhancedGoTutor          *)
(*                                                                         *)
(* Strings that the code indexes or slices (coordinates, frame texts) are  *)
(* sequences of one-character strings; Python lists are sequences with     *)
(* 0-based indices translated to 1-based ones where they are used.         *)
(***************************************************************************)
EXTENDS Integers, Sequences, FiniteSets, TLC

VARIABLES
    pc,                 \* position of start_tutoring_session / monitor_game
    transport,          \* "none" | "open" | "closed": the websocket transport
    is_authenticated,   \* RealOGSConnector.is_authenticated
    websocket,          \* RealOGSConnector.websocket is set (not None)
    welcome,            \* first frame read by connect_to_websocket
    sent,               \* frames sent before the receive loop, in order
    replies,            \* frames sent while handling the latest inbound frame
    message_count,      \* monitor_game's message_count
    event_type,         \* monitor_game's event_type: the type of the latest event
    last_move_count,    \* LiveOGSTutor.last_move_count
    tutoring_interval,  \* LiveOGSTutor.tutoring_interval
    ai_tutor,           \* LiveOGSTutor.ai_tutor: game_history and move_count
    pass_ran,           \* the latest update event called _provide_tutoring
    stream,             \* k when the update events so far carried 1,2,..,k moves
    inbound,            \* what the peer delivers: how many frames at most and
                        \* how long a move list at most
    arg,                \* argument of the function under test
    ret                 \* its result

vars == <<pc, transport, is_authenticated, websocket, welcome, sent, replies,
          message_count, event_type, last_move_count, tutoring_interval, ai_tutor,
          pass_ran, stream, inbound, arg, ret>>

(***************************************************************************)
(* Bounds of the model                                                     *)
(***************************************************************************)
MaxRaw == 3        \* longest raw move list given to _parse_moves on its own
MaxWindow == 6     \* longest window given to check_joseki on its own
MaxMoves == 10     \* longest move list carried by an event of a session
MaxPlayers == 2    \* longest list under the "players" key of a payload
MaxFrames == 12    \* most frames delivered to the receive loop of a session
LongMoves == 6     \* the same two bounds for a session that outlasts the
LongFrames == 103  \* message limit of the receive loop
FairMoves == 3     \* and for a short session checked for termination
FairFrames == 4
MaxCoord == 3      \* longest coordinate string given to _parse_coordinate
MaxCount == 125    \* most moves added to a tutor whose phase is followed

(***************************************************************************)
(* Python helpers                                                          *)
(***************************************************************************)
None == [none |-> TRUE]

\* s[a:b] for 0 <= a, 0 <= b
PySlice(s, a, b) == SubSeq(s, a + 1, IF b < Len(s) THEN b ELSE Len(s))

\* s.startswith(p)
startswith(s, p) == Len(s) >= Len(p) /\ SubSeq(s, 1, Len(p)) = p

DigitChars == <<"0", "1", "2", "3", "4", "5", "6", "7", "8", "9">>

\* str(n) for n >= 0
RECURSIVE str(_)
str(n) == IF n < 10 THEN <<DigitChars[n + 1]>>
          ELSE str(n \div 10) \o <<DigitChars[(n % 10) + 1]>>

\* int(s) for a string of decimal digits
RECURSIVE int(_)
int(s) == IF Len(s) = 0 THEN 0
          ELSE 10 * int(SubSeq(s, 1, Len(s) - 1))
               + ((CHOOSE d \in 1..10 : DigitChars[d] = s[Len(s)]) - 1)

letters == <<"A", "B", "C", "D", "E", "F", "G", "H", "J", "K",
             "L", "M", "N", "O", "P", "Q", "R", "S", "T">>

\* letters.index(c) if c in letters else 0
LetterIndexAlphabetWithI(c) ==
    LET alphabet == <<"A", "B", "C", "D", "E", "F", "G", "H", "I", "J",
                      "K", "L", "M", "N", "O", "P", "Q", "R", "S">>
    IN  IF \E k \in 1..Len(alphabet) : alphabet[k] = c
        THEN (CHOOSE k \in 1..Len(alphabet) : alphabet[k] = c) - 1
        ELSE 0
LetterIndex(c) == IF \E k \in 1..Len(letters) : letters[k] = c
                  THEN (CHOOSE k \in 1..Len(letters) : letters[k] = c) - 1
                  ELSE 0

(***************************************************************************)
(* OGSGameParser._parse_moves                                              *)
(*                                                                         *)
(* A raw move is [form, len, keys, num, x, y, color]:                      *)
(*   form  "list" (len elements: x, y, color), "dict" (with the keys in    *)
(*         keys) or "other" (a string, a number, null)                     *)
(*   num   FALSE when the coordinates are not numbers, so that comparing   *)
(*         them with 0 raises                                              *)
(***************************************************************************)
RawList(n, x, y, c) ==
    [form |-> "list", len |-> n, keys |-> {}, num |-> TRUE,
     x |-> x, y |-> y, color |-> c]
RawDict(ks, x, y, c) ==
    [form |-> "dict", len |-> 0, keys |-> ks, num |-> TRUE,
     x |-> x, y |-> y, color |-> c]
RawOther == [form |-> "other", len |-> 0, keys |-> {}, num |-> TRUE,
             x |-> 0, y |-> 0, color |-> "black"]
RawJunk == [form |-> "list", len |-> 2, keys |-> {}, num |-> FALSE,
            x |-> 0, y |-> 0, color |-> "black"]

\* "black" if i % 2 == 0 else "white"
ParityColor(i) == IF i % 2 = 0 THEN "black" ELSE "white"

\* the coordinate test of line 360
InRangeRowUnbounded(x, y) == 0 <= x /\ x <= 18 /\ 0 <= y
InRange(x, y) == 0 <= x /\ x <= 18 /\ 0 <= y /\ y <= 18

\* f"{letters[x]}{y + 1}"
CoordOf(x, y) == <<letters[x + 1]>> \o str(y + 1)

\* the number stored with a surviving move: its index in the raw list + 1
MoveNumberOf(i, kept) == i + 1

\* one iteration of the loop of _parse_moves: the list after raw entry i
ParseStep(parsed, i, m) ==
    LET islist == m.form = "list" /\ m.len >= 2
        isdict == m.form = "dict"
        x == IF islist THEN m.x ELSE IF "x" \in m.keys THEN m.x ELSE -1
        y == IF islist THEN m.y ELSE IF "y" \in m.keys THEN m.y ELSE -1
        color == IF islist THEN ParityColor(i)
                 ELSE IF "color" \in m.keys THEN m.color ELSE ParityColor(i)
    IN  IF ~(islist \/ isdict) THEN parsed
        ELSE IF ~m.num /\ (islist \/ {"x", "y"} \subseteq m.keys) THEN parsed
        ELSE IF InRange(x, y)
             THEN Append(parsed, [coordinate |-> CoordOf(x, y),
                                  color |-> color,
                                  move_number |-> MoveNumberOf(i, Len(parsed)),
                                  x |-> x, y |-> y])
             ELSE parsed

RECURSIVE ParseFrom(_, _, _)
ParseFrom(parsed, i, moves_data) ==
    IF i >= Len(moves_data) THEN parsed
    ELSE ParseFrom(ParseStep(parsed, i, moves_data[i + 1]), i + 1, moves_data)

_parse_moves(moves_data) == ParseFrom(<<>>, 0, moves_data)

(***************************************************************************)
(* JosekiDatabase                                                          *)
(***************************************************************************)
D4 == <<"D", "4">>
Q16 == <<"Q", "1", "6">>
R14 == <<"R", "1", "4">>
Q14 == <<"Q", "1", "4">>
D16 == <<"D", "1", "6">>
Q4 == <<"Q", "4">>
C6 == <<"C", "6">>
R12 == <<"R", "1", "2">>
F3 == <<"F", "3">>

_load_joseki_patterns ==
    << [name |-> "3-4 Point Approach", moves |-> <<D4, Q16, R14, Q14>>,
        variations |-> <<"R15", "Q15", "R17">>],
       [name |-> "Diagonal Fuseki", moves |-> <<D4, Q16, D16, Q4>>,
        variations |-> <<"R17", "D17", "C3">>],
       [name |-> "Chinese Opening", moves |-> <<D4, Q16, Q4, C6>>,
        variations |-> <<"C10", "F3", "R6">>],
       [name |-> "Pincer Attack", moves |-> <<D4, Q16, R14, R12>>,
        variations |-> <<"R11", "R13", "Q12">>],
       [name |-> "Knight's Move Enclosure", moves |-> <<D4, F3>>,
        variations |-> <<"C6", "E3", "C3">>] >>

\* the start offsets tried for one record: range(len(recent) - len(moves) + 1)
JosekiOffsetsEveryStart(recent_moves, joseki_moves) ==
    0..(Len(recent_moves) - 1)
JosekiOffsets(recent_moves, joseki_moves) ==
    0..(Len(recent_moves) - Len(joseki_moves))

\* the offsets of one record at which the slice equals the record's prefix
JosekiHits(recent_moves, joseki_moves) ==
    {i \in JosekiOffsets(recent_moves, joseki_moves) :
        LET sequence == PySlice(recent_moves, i, i + Len(joseki_moves))
        IN  sequence = PySlice(joseki_moves, 0, Len(sequence))}

check_joseki(recent_moves) ==
    LET josekis == _load_joseki_patterns
        hit == {j \in 1..Len(josekis) :
                   JosekiHits(recent_moves, josekis[j].moves) # {}}
    IN  IF Len(recent_moves) < 2 THEN None
        ELSE IF hit = {} THEN None
        ELSE LET j == CHOOSE a \in hit : \A b \in hit : a <= b
                 joseki == josekis[j]
                 hits == JosekiHits(recent_moves, joseki.moves)
                 i == CHOOSE a \in hits : \A b \in hits : a <= b
                 sequence == PySlice(recent_moves, i, i + Len(joseki.moves))
             IN  [name |-> joseki.name,
                  moves |-> joseki.moves,
                  variations |-> joseki.variations,
                  matched_moves |-> Len(sequence),
                  total_moves |-> Len(joseki.moves),
                  is_complete |-> Len(sequence) = Len(joseki.moves)]

(***************************************************************************)
(* EnhancedGoTutor: the move history the orchestrator rebuilds per pass    *)
(***************************************************************************)
LowerChars == <<"a", "b", "c", "d", "e", "f", "g", "h", "j", "k",
                "l", "m", "n", "o", "p", "q", "r", "s", "t">>

\* c.upper() on the letters of the board alphabet
upper(c) == IF \E k \in 1..Len(LowerChars) : LowerChars[k] = c
            THEN letters[CHOOSE k \in 1..Len(LowerChars) : LowerChars[k] = c]
            ELSE c

ParseCoordinateRowOneBased(coord, color, move_num) ==
    IF Len(coord) >= 2
    THEN LET letter == upper(coord[1])
             number == int(SubSeq(coord, 2, Len(coord)))
         IN  [x |-> LetterIndex(letter), y |-> number,
              color |-> color, move_number |-> move_num]
    ELSE [x |-> 3, y |-> 3, color |-> color, move_number |-> move_num]
_parse_coordinate(coord, color, move_num) ==
    IF Len(coord) >= 2
    THEN LET letter == upper(coord[1])
             number == int(SubSeq(coord, 2, Len(coord)))
         IN  [x |-> LetterIndex(letter), y |-> number - 1,
              color |-> color, move_number |-> move_num]
    ELSE [x |-> 3, y |-> 3, color |-> color, move_number |-> move_num]

\* EnhancedGoTutor(): empty history
NewTutor == [game_history |-> <<>>, move_count |-> 0]

add_move(tutor, coordinate, color) ==
    [game_history |-> Append(tutor.game_history,
                             _parse_coordinate(coordinate, color,
                                               tutor.move_count + 1)),
     move_count |-> tutor.move_count + 1]

RECURSIVE AddMoves(_, _, _)
AddMoves(tutor, moves, k) ==
    IF k > Len(moves) THEN tutor
    ELSE AddMoves(add_move(tutor, moves[k].coordinate, moves[k].color),
                  moves, k + 1)

\* the tutor held after _provide_tutoring(moves, game_state)
_provide_tutoring(moves) == AddMoves(NewTutor, moves, 1)

(***************************************************************************)
(* OGSGameParser._extract_players                                          *)
(*                                                                         *)
(* The value of the "players" key is absent, a dict with a slot for each   *)
(* colour, a list of entries, or a value of another type.  A slot is       *)
(* [present, isdict, has_username, isnull, value]; an entry is             *)
(* [isdict, hashable, color, colour, username, name], where "" stands for  *)
(* a key that is absent or holds an empty value.  The result maps colours  *)
(* to names.                                                               *)
(***************************************************************************)
SlotAbsent == [present |-> FALSE, isdict |-> FALSE, has_username |-> FALSE,
               isnull |-> FALSE, value |-> ""]
SlotInfo(u) == [present |-> TRUE, isdict |-> TRUE, has_username |-> TRUE,
                isnull |-> FALSE, value |-> u]
SlotInfoNoName == [present |-> TRUE, isdict |-> TRUE, has_username |-> FALSE,
                   isnull |-> FALSE, value |-> ""]
SlotPlain(v) == [present |-> TRUE, isdict |-> FALSE, has_username |-> FALSE,
                 isnull |-> FALSE, value |-> v]
SlotNull == [present |-> TRUE, isdict |-> FALSE, has_username |-> FALSE,
             isnull |-> TRUE, value |-> ""]

PlayerEntry(color, colour, username, name) ==
    [isdict |-> TRUE, hashable |-> TRUE, color |-> color, colour |-> colour,
     username |-> username, name |-> name]
\* an entry whose "color" is a JSON list: truthy, but no dict key
EntryListColor(username) ==
    [isdict |-> TRUE, hashable |-> FALSE, color |-> "[]", colour |-> "",
     username |-> username, name |-> ""]
EntryNotDict ==
    [isdict |-> FALSE, hashable |-> TRUE, color |-> "", colour |-> "",
     username |-> "", name |-> ""]

PlayersAbsent == [kind |-> "absent", black |-> SlotAbsent,
                  white |-> SlotAbsent, entries |-> <<>>]
PlayersDict(b, w) == [kind |-> "dict", black |-> b, white |-> w,
                      entries |-> <<>>]
PlayersList(es) == [kind |-> "list", black |-> SlotAbsent,
                    white |-> SlotAbsent, entries |-> es]
PlayersOther == [kind |-> "other", black |-> SlotAbsent,
                 white |-> SlotAbsent, entries |-> <<>>]

\* players = {}
EmptyMap == [c \in {} |-> ""]

\* a or b, for strings and None
PyOr(a, b) == IF a # "" THEN a ELSE b

\* an exception leaves _extract_players (TypeError: unhashable type)
PlayersRaised == [raised |-> TRUE]

\* the dict form: player_data[color] for the colours present; a dict
\* without "username" gives f"Player {color}", another value its str()
PlayersOfDict(player_data) ==
    LET name(color) ==
            LET player_info == player_data[color]
            IN  IF player_info.isdict
                THEN IF player_info.has_username THEN player_info.value
                     ELSE IF color = "black" THEN "Player black"
                          ELSE "Player white"
                ELSE IF player_info.isnull THEN "None"
                     ELSE player_info.value
    IN  [color \in {c \in {"black", "white"} : player_data[c].present} |->
            name(color)]

\* the list form: the entries from the k-th on, added to players
RECURSIVE PlayersOfList(_, _, _)
PlayersOfList(players, entries, k) ==
    IF k > Len(entries) THEN players
    ELSE LET player == entries[k]
             color == PyOr(player.color, player.colour)
             username == PyOr(player.username, player.name)
         IN  IF player.isdict /\ color # "" /\ username # ""
             THEN IF player.hashable
                  THEN PlayersOfList(
                           [c \in (DOMAIN players) \cup {color} |->
                               IF c = color THEN username ELSE players[c]],
                           entries, k + 1)
                  ELSE PlayersRaised
             ELSE PlayersOfList(players, entries, k + 1)

Placeholders == [black |-> "Black Player", white |-> "White Player"]

_extract_players(game_data) ==
    LET player_data == game_data.info.players
        players ==
            CASE player_data.kind = "dict" -> PlayersOfDict(player_data)
              [] player_data.kind = "list" ->
                     PlayersOfList(EmptyMap, player_data.entries, 1)
              [] OTHER -> EmptyMap
    IN  IF players = PlayersRaised THEN PlayersRaised
        ELSE IF DOMAIN players = {} THEN Placeholders
        ELSE players

(***************************************************************************)
(* OGSGameParser.parse_game_state                                          *)
(*                                                                         *)
(* An event payload is [isdict, has_moves, moves_is_list, moves, info];    *)
(* info holds the other keys: the set of those present and their values.   *)
(***************************************************************************)
\* a payload without "id", "width", "phase", "players", "time_control"
NoInfo == [keys |-> {}, id |-> [isnum |-> FALSE, n |-> 0, s |-> <<>>],
           width |-> 0, phase |-> "", time_control |-> {},
           players |-> PlayersAbsent]
Payload(ms) == [isdict |-> TRUE, has_moves |-> TRUE, moves_is_list |-> TRUE,
                moves |-> ms, info |-> NoInfo]
PayloadNoMoves == [isdict |-> TRUE, has_moves |-> FALSE,
                   moves_is_list |-> TRUE, moves |-> <<>>, info |-> NoInfo]
PayloadNullMoves == [isdict |-> TRUE, has_moves |-> TRUE,
                     moves_is_list |-> FALSE, moves |-> <<>>,
                     info |-> NoInfo]
PayloadNotDict == [isdict |-> FALSE, has_moves |-> FALSE,
                   moves_is_list |-> FALSE, moves |-> <<>>, info |-> NoInfo]

\* the payload game_data with the value players under its "players" key
WithPlayers(game_data, players) ==
    [game_data EXCEPT !.info.keys = @ \cup {"players"},
                      !.info.players = players]

\* the payload game_data with the keys ks of the record info and its
\* "players" value; the value of a key that is absent is never read
WithInfo(game_data, ks, info) ==
    [game_data EXCEPT
        !.info = [keys |-> ks \cup (IF info.players.kind = "absent" THEN {}
                                    ELSE {"players"}),
                  id |-> IF "id" \in ks THEN info.id ELSE NoInfo.id,
                  width |-> IF "width" \in ks THEN info.width
                            ELSE NoInfo.width,
                  phase |-> IF "phase" \in ks THEN info.phase
                            ELSE NoInfo.phase,
                  time_control |-> IF "time_control" \in ks
                                   THEN info.time_control
                                   ELSE NoInfo.time_control,
                  players |-> info.players]]

DefaultBoardSize == 19
Unknown == <<"u", "n", "k", "n", "o", "w", "n">>

\* str(game_data.get("id", "unknown")), as a sequence of characters
GameId(info) ==
    IF "id" \in info.keys
    THEN IF info.id.isnum THEN str(info.id.n) ELSE info.id.s
    ELSE Unknown

\* None when .get or len() or _extract_players raises inside the try block
ParseGameStateMovesRequired(game_data) ==
    IF ~game_data.isdict THEN None
    ELSE IF ~game_data.has_moves \/ ~game_data.moves_is_list THEN None
    ELSE IF _extract_players(game_data) = PlayersRaised THEN None
    ELSE LET raw == game_data.moves
             info == game_data.info
         IN  [game_id |-> GameId(info),
              board_size |-> IF "width" \in info.keys THEN info.width
                             ELSE DefaultBoardSize,
              move_count |-> Len(raw),
              current_phase |-> IF "phase" \in info.keys THEN info.phase
                                ELSE "playing",
              players |-> _extract_players(game_data),
              time_control |-> IF "time_control" \in info.keys
                               THEN info.time_control ELSE {},
              moves |-> _parse_moves(raw)]
parse_game_state(game_data) ==
    IF ~game_data.isdict THEN None
    ELSE IF game_data.has_moves /\ ~game_data.moves_is_list THEN None
    ELSE IF _extract_players(game_data) = PlayersRaised THEN None
    ELSE LET raw == IF game_data.has_moves THEN game_data.moves ELSE <<>>
             info == game_data.info
         IN  [game_id |-> GameId(info),
              board_size |-> IF "width" \in info.keys THEN info.width
                             ELSE DefaultBoardSize,
              move_count |-> Len(raw),
              current_phase |-> IF "phase" \in info.keys THEN info.phase
                                ELSE "playing",
              players |-> _extract_players(game_data),
              time_control |-> IF "time_control" \in info.keys
                               THEN info.time_control ELSE {},
              moves |-> _parse_moves(raw)]

(***************************************************************************)
(* Frames of the socket.io sub-protocol                                    *)
(*                                                                         *)
(* A frame is its leading text and the JSON that follows it:               *)
(*   body = [valid, islist, len, event_type, event_data]                   *)
(***************************************************************************)
NoBody == [valid |-> FALSE, islist |-> FALSE, len |-> 0,
           event_type |-> "", event_data |-> PayloadNotDict]
JsonEvent(t, p) == [valid |-> TRUE, islist |-> TRUE, len |-> 2,
                    event_type |-> t, event_data |-> p]
Frame(text, body) == [text |-> text, body |-> body]

NoFrame == Frame(<<>>, NoBody)
OpenFrame == Frame(<<"0">>, [NoBody EXCEPT !.valid = TRUE])
AckFrame == Frame(<<"4", "0">>, NoBody)
PingFrame == Frame(<<"2">>, NoBody)
PongFrame == Frame(<<"3">>, NoBody)
EventFrame(t, p) == Frame(<<"4", "2">>, JsonEvent(t, p))
BadJsonFrame == Frame(<<"4", "2">>, NoBody)
ShortListFrame == Frame(<<"4", "2">>,
                        [NoBody EXCEPT !.valid = TRUE, !.islist = TRUE,
                                       !.len = 1, !.event_type = "game/move"])
ObjectFrame == Frame(<<"4", "2">>, [NoBody EXCEPT !.valid = TRUE])

\* f'42["game/connect",{{"game_id":{game_id}}}]'
SubscribeFrame == EventFrame("game/connect", PayloadNoMoves)

MessageLimit == 100

UpdateEventsEveryType ==
    {"game/move", "game/gamedata", "game/clock", "game/chat"}
UpdateEvents == {"game/move", "game/gamedata"}

\* what the loop body of monitor_game does with one message
FrameOutcomePingUnanswered(message) ==
    IF startswith(message.text, <<"4", "2">>)
    THEN IF ~message.body.valid THEN "json_error"
         ELSE IF message.body.islist /\ message.body.len >= 2
                 /\ message.body.event_type \in UpdateEvents
              THEN "callback"
              ELSE "none"
    ELSE "none"
FrameOutcome(message) ==
    IF startswith(message.text, <<"4", "2">>)
    THEN IF ~message.body.valid THEN "json_error"
         ELSE IF message.body.islist /\ message.body.len >= 2
                 /\ message.body.event_type \in UpdateEvents
              THEN "callback"
              ELSE "none"
    ELSE IF startswith(message.text, <<"2">>) THEN "pong"
    ELSE "none"

\* the message is a "42" frame whose JSON is a list of two or more elements,
\* so that the loop body assigns event_type
CarriesEvent(message) ==
    /\ startswith(message.text, <<"4", "2">>)
    /\ message.body.valid
    /\ message.body.islist
    /\ message.body.len >= 2

\* where monitor_game stands after the loop body: an exception raised in the
\* body is caught inside the loop and skips the message-count test
LoopAfterJsonErrorFatal(outcome, send_ok, count) ==
    IF outcome = "json_error" THEN "closed"
    ELSE IF outcome = "pong" /\ ~send_ok THEN "monitoring"
    ELSE IF count > MessageLimit THEN "capped"
    ELSE "monitoring"
LoopAfter(outcome, send_ok, count) ==
    IF outcome = "json_error" \/ (outcome = "pong" /\ ~send_ok)
    THEN "monitoring"
    ELSE IF count > MessageLimit THEN "capped"
    ELSE "monitoring"

(***************************************************************************)
(* Inputs                                                                  *)
(***************************************************************************)
\* the i-th move (0-based) of the game the events report
GameX(i) == IF i = 0 THEN 3 ELSE IF i = 1 THEN 15 ELSE IF i = 2 THEN 16
            ELSE IF i = 3 THEN 15 ELSE (3 * i) % 19
GameY(i) == IF i = 0 THEN 3 ELSE IF i = 1 THEN 15 ELSE IF i = 2 THEN 13
            ELSE IF i = 3 THEN 13 ELSE (5 * i + 2) % 19
GameRaw(i) == IF i % 3 = 0 THEN RawList(2, GameX(i), GameY(i), "black")
              ELSE IF i % 3 = 1
                   THEN RawDict({"x", "y", "color"}, GameX(i), GameY(i),
                                ParityColor(i))
                   ELSE RawList(3, GameX(i), GameY(i), ParityColor(i))

\* the first n moves; with a pass the entry at index 1 is off the board
GameMoves(n, withPass) ==
    [k \in 1..n |-> IF withPass /\ k = 2 THEN RawList(2, 25, 3, "white")
                    ELSE GameRaw(k - 1)]

\* game/gamedata carries the whole move list, of at most longest entries
GamedataPayloads(longest) ==
    {Payload(GameMoves(n, FALSE)) : n \in 0..longest}
    \cup {Payload(GameMoves(n, TRUE)) : n \in {2, 7} \cap (0..longest)}
    \cup {PayloadNullMoves, PayloadNotDict}

\* game/move carries one move and no move list
MovePayloads == {PayloadNoMoves}

EventPayloads ==
    GamedataPayloads(IF MaxMoves > LongMoves THEN MaxMoves ELSE LongMoves)
    \cup MovePayloads

UpdateFrames(longest) ==
    {EventFrame("game/gamedata", p) : p \in GamedataPayloads(longest)}
    \cup {EventFrame("game/move", p) : p \in MovePayloads}

\* the update frames of each session, computed once
UpdateFramesOf ==
    [longest \in {MaxMoves, LongMoves, FairMoves} |-> UpdateFrames(longest)]

\* events of other types than the two update types
OtherEventFrames ==
    {EventFrame("game/clock", PayloadNoMoves),
     EventFrame("game/chat", Payload(GameMoves(2, FALSE)))}

OtherFrames ==
    OtherEventFrames
    \cup {ShortListFrame, ObjectFrame, PongFrame, AckFrame, OpenFrame}

WelcomeFrames == {OpenFrame, AckFrame, PingFrame}

(***************************************************************************)
(* LiveOGSTutor: the sampling policy and the update handler                *)
(***************************************************************************)
DefaultTutoringInterval == 5
DemoTutoringInterval == 3
FirstFewMoves == 5

ShouldTutorIntervalOnly(current_move_count, last, interval) ==
    current_move_count - last >= interval
_should_provide_tutoring(current_move_count, last, interval) ==
    LET move_difference == current_move_count - last
    IN  IF move_difference >= interval THEN TRUE
        ELSE IF current_move_count <= FirstFewMoves THEN TRUE
        ELSE FALSE

\* parse_game_state and _provide_tutoring of every payload, computed once
Normalized ==
    [p \in EventPayloads |->
        LET game_state == parse_game_state(p)
        IN  [game_state |-> game_state,
             tutor |-> IF game_state = None THEN NewTutor
                       ELSE _provide_tutoring(game_state.moves)]]

\* the orchestrator's fields after _handle_game_update(game_data, event_type)
HandleGameUpdateNotAwaited(game_data, last, interval, tutor) ==
    [last_move_count |-> last, ai_tutor |-> tutor, pass_ran |-> FALSE,
     parsed |-> Normalized[game_data].game_state # None]
_handle_game_update(game_data, last, interval, tutor) ==
    LET game_state == Normalized[game_data].game_state
    IN  IF game_state = None
        THEN [last_move_count |-> last, ai_tutor |-> tutor,
              pass_ran |-> FALSE, parsed |-> FALSE]
        ELSE LET moves == game_state.moves
                 current_move_count == Len(moves)
                 tutoring == _should_provide_tutoring(current_move_count,
                                                      last, interval)
             IN  [last_move_count |-> current_move_count,
                  ai_tutor |-> IF tutoring THEN Normalized[game_data].tutor
                               ELSE tutor,
                  pass_ran |-> tutoring, parsed |-> TRUE]

Intervals == {DefaultTutoringInterval, DemoTutoringInterval}

(***************************************************************************)
(* The session: LiveOGSTutor.start_tutoring_session and                    *)
(* RealOGSConnector.connect_to_websocket / monitor_game                    *)
(***************************************************************************)
SessionInit ==
    /\ transport = "none"
    /\ is_authenticated = FALSE
    /\ websocket = FALSE
    /\ welcome = NoFrame
    /\ sent = <<>>
    /\ replies = <<>>
    /\ message_count = 0
    /\ event_type = ""
    /\ last_move_count = 0
    /\ tutoring_interval = DefaultTutoringInterval
    /\ ai_tutor = NewTutor
    /\ pass_ran = FALSE
    /\ stream = 0

Init ==
    /\ pc = "start"
    /\ SessionInit
    /\ inbound = [frames |-> MaxFrames, moves |-> MaxMoves]
    /\ arg = <<>>
    /\ ret = None

tutorVars == <<last_move_count, tutoring_interval, ai_tutor, pass_ran, stream>>
loopVars == <<replies, message_count, event_type>>
connVars == <<transport, is_authenticated, websocket, welcome, sent>>
funVars == <<inbound, arg, ret>>

set_tutoring_interval(interval) ==
    /\ pc = "start"
    /\ tutoring_interval' = interval
    /\ UNCHANGED <<pc, connVars, loopVars, last_move_count, ai_tutor,
                   pass_ran, stream, funVars>>

\* step 1 of start_tutoring_session
AuthenticateResultIgnored(ok) ==
    /\ pc = "start"
    /\ is_authenticated' = ok
    /\ pc' = "authenticated"
    /\ UNCHANGED <<transport, websocket, welcome, sent, loopVars, tutorVars,
                   funVars>>
Authenticate(ok) ==
    /\ pc = "start"
    /\ is_authenticated' = ok
    /\ pc' = IF ok THEN "authenticated" ELSE "failed"
    /\ UNCHANGED <<transport, websocket, welcome, sent, loopVars, tutorVars,
                   funVars>>

\* step 2: connect, read the first frame, acknowledge a session-open frame
connect_to_websocket(connected, received, w, send_ok) ==
    /\ pc = "authenticated"
    /\ websocket' = connected
    /\ IF ~connected
       THEN /\ pc' = "failed"
            /\ UNCHANGED <<transport, welcome, sent>>
       ELSE IF ~received
       THEN /\ pc' = "failed"
            /\ transport' = "closed"
            /\ UNCHANGED <<welcome, sent>>
       ELSE /\ welcome' = w
            /\ IF startswith(w.text, <<"0">>)
               THEN IF send_ok
                    THEN /\ sent' = Append(sent, AckFrame)
                         /\ transport' = "open"
                         /\ pc' = "connected"
                    ELSE /\ sent' = sent
                         /\ transport' = "closed"
                         /\ pc' = "failed"
               ELSE /\ sent' = sent
                    /\ transport' = "open"
                    /\ pc' = "connected"
    /\ UNCHANGED <<is_authenticated, loopVars, tutorVars, funVars>>

\* step 3: get_live_games and _select_game / _manual_game_entry
SelectGame(found) ==
    /\ pc = "connected"
    /\ pc' = IF found THEN "selected" ELSE "failed"
    /\ UNCHANGED <<connVars, loopVars, tutorVars, funVars>>

\* the ways the websocket fails monitor_game: the iteration over it ends
\* (clean close), or the receive or a send raises ConnectionClosed or
\* another exception
CloseKinds == {"ended", "ConnectionClosed", "Exception"}

\* how monitor_game leaves its try block: the function returns ("closed")
\* after the loop and from both except clauses; "raised" would be an
\* exception reaching the caller
MonitorExitErrorEscapes(kind) ==
    CASE kind = "ended" -> "closed"
      [] kind = "ConnectionClosed" -> "closed"
      [] OTHER -> "raised"
MonitorExit(kind) ==
    CASE kind = "ended" -> "closed"
      [] kind = "ConnectionClosed" -> "closed"
      [] OTHER -> "closed"

\* step 4: monitor_game up to its receive loop
MonitorSubscribe ==
    /\ pc = "selected"
    /\ IF ~websocket
       THEN /\ pc' = "closed"
            /\ sent' = sent
       ELSE IF transport = "open"
       THEN /\ sent' = Append(sent, SubscribeFrame)
            /\ pc' = "monitoring"
       ELSE /\ sent' = sent
            /\ pc' = MonitorExit("ConnectionClosed")
    /\ UNCHANGED <<transport, is_authenticated, websocket, welcome, loopVars,
                   tutorVars, funVars>>

\* one iteration of the receive loop of monitor_game on message
MonitorStep(message, send_ok) ==
    /\ pc = "monitoring"
    /\ transport = "open"
    /\ message_count < inbound.frames
    /\ message_count' = message_count + 1
    /\ LET outcome == FrameOutcome(message)
       IN  /\ send_ok \/ outcome = "pong"
           /\ IF outcome = "callback"
              THEN LET h == _handle_game_update(message.body.event_data,
                                                last_move_count,
                                                tutoring_interval, ai_tutor)
                   IN  /\ last_move_count' = h.last_move_count
                       /\ ai_tutor' = h.ai_tutor
                       /\ pass_ran' = h.pass_ran
                       /\ stream' = IF h.parsed /\ stream >= 0
                                       /\ h.last_move_count = stream + 1
                                    THEN stream + 1 ELSE -1
              ELSE UNCHANGED <<last_move_count, ai_tutor, pass_ran, stream>>
           /\ event_type' = IF CarriesEvent(message)
                            THEN message.body.event_type ELSE event_type
           /\ replies' = IF outcome = "pong" /\ send_ok THEN <<PongFrame>>
                         ELSE <<>>
           /\ transport' = IF outcome = "pong" /\ ~send_ok THEN "closed"
                           ELSE transport
           /\ pc' = LoopAfter(outcome, send_ok, message_count')
    /\ UNCHANGED <<is_authenticated, websocket, welcome, sent,
                   tutoring_interval, funVars>>

\* the connection is lost before monitor_game subscribes
TransportClose ==
    /\ transport = "open"
    /\ pc \in {"connected", "selected"}
    /\ transport' = "closed"
    /\ UNCHANGED <<pc, is_authenticated, websocket, welcome, sent, loopVars,
                   tutorVars, funVars>>

\* the receive finds the connection closed: the iteration over the websocket
\* ends or raises ConnectionClosed, which monitor_game catches
MonitorEnd(kind) ==
    /\ pc = "monitoring"
    /\ transport' = "closed"
    /\ pc' = MonitorExit(kind)
    /\ UNCHANGED <<is_authenticated, websocket, welcome, sent, loopVars,
                   tutorVars, funVars>>

RecvUpdate == \E m \in UpdateFramesOf[inbound.moves] : MonitorStep(m, TRUE)
RecvPing == \E send_ok \in BOOLEAN : MonitorStep(PingFrame, send_ok)
RecvBadJson == MonitorStep(BadJsonFrame, TRUE)
RecvOther == \E m \in OtherFrames : MonitorStep(m, TRUE)

Next ==
    \/ \E i \in Intervals : set_tutoring_interval(i)
    \/ \E ok \in BOOLEAN : Authenticate(ok)
    \/ \E c, r, s \in BOOLEAN, w \in WelcomeFrames :
           connect_to_websocket(c, r, w, s)
    \/ \E found \in BOOLEAN : SelectGame(found)
    \/ MonitorSubscribe
    \/ RecvUpdate
    \/ RecvPing
    \/ RecvBadJson
    \/ RecvOther
    \/ TransportClose
    \/ \E kind \in CloseKinds : MonitorEnd(kind)

Spec == Init /\ [][Next]_vars

\* a session whose peer delivers more frames than the message limit
InitLong ==
    /\ pc = "start"
    /\ SessionInit
    /\ inbound = [frames |-> LongFrames, moves |-> LongMoves]
    /\ arg = <<>>
    /\ ret = None

SpecLong == InitLong /\ [][Next]_vars

\* a short session in which a receive on a closed connection is not put off
\* for ever: the event loop resumes monitor_game once the websocket fails
InitFair ==
    /\ pc = "start"
    /\ SessionInit
    /\ inbound = [frames |-> FairFrames, moves |-> FairMoves]
    /\ arg = <<>>
    /\ ret = None

SpecFair ==
    /\ InitFair
    /\ [][Next]_vars
    /\ WF_vars(transport = "closed" /\ \E kind \in CloseKinds : MonitorEnd(kind))

(***************************************************************************)
(* _parse_moves on its own, over every raw list of up to MaxRaw entries    *)
(***************************************************************************)
RawMoves ==
    {RawList(2, 3, 3, "black"), RawList(3, 15, 15, "white"),
     RawList(2, 25, 3, "black"), RawList(2, 3, 19, "black"),
     RawList(1, 3, 3, "black"),
     RawDict({"x", "y", "color"}, 16, 13, "white"),
     RawDict({"x", "y"}, 0, 18, "black"),
     RawDict({"y", "color"}, 3, 3, "white"),
     RawDict({"x", "y", "color"}, 5, -1, "black"),
     RawOther, RawJunk}

RECURSIVE SeqsUpTo(_, _)
SeqsUpTo(S, n) ==
    IF n = 0 THEN {<<>>}
    ELSE LET shorter == SeqsUpTo(S, n - 1)
         IN  shorter \cup {Append(q, e) : q \in shorter, e \in S}

InitParse ==
    /\ pc = "parse"
    /\ SessionInit
    /\ inbound = [frames |-> 0, moves |-> 0]
    /\ arg \in SeqsUpTo(RawMoves, MaxRaw)
    /\ ret = <<>>

ApplyParse ==
    /\ pc = "parse"
    /\ ret' = _parse_moves(arg)
    /\ pc' = "parsed"
    /\ UNCHANGED <<connVars, loopVars, tutorVars, inbound, arg>>

SpecParse == InitParse /\ [][ApplyParse]_vars

(***************************************************************************)
(* check_joseki on its own, over every window of up to MaxWindow moves     *)
(***************************************************************************)
WindowCoords == {D4, Q16, R14, Q14, F3}

InitJoseki ==
    /\ pc = "joseki"
    /\ SessionInit
    /\ inbound = [frames |-> 0, moves |-> 0]
    /\ arg \in SeqsUpTo(WindowCoords, MaxWindow)
    /\ ret = None

ApplyJoseki ==
    /\ pc = "joseki"
    /\ ret' = check_joseki(arg)
    /\ pc' = "checked"
    /\ UNCHANGED <<connVars, loopVars, tutorVars, inbound, arg>>

SpecJoseki == InitJoseki /\ [][ApplyJoseki]_vars

(***************************************************************************)
(* _extract_players on its own, over the forms of the "players" key        *)
(***************************************************************************)
Slots == {SlotAbsent, SlotInfo("alice"), SlotInfoNoName, SlotPlain("bob"),
          SlotNull}

PlayersValues ==
    LET Entries ==
            {EntryNotDict, PlayerEntry("black", "", "alice", ""),
             PlayerEntry("", "white", "", "bob"),
             PlayerEntry("black", "", "", ""),
             PlayerEntry("green", "", "carol", ""), EntryListColor("dave")}
    IN  {PlayersOther}
        \cup {PlayersDict(b, w) : b \in Slots, w \in Slots}
        \cup {PlayersList(es) : es \in SeqsUpTo(Entries, MaxPlayers)}

InitPlayers ==
    /\ pc = "players"
    /\ SessionInit
    /\ inbound = [frames |-> 0, moves |-> 0]
    /\ arg \in {PayloadNoMoves}
               \cup {WithPlayers(PayloadNoMoves, p) : p \in PlayersValues}
    /\ ret = EmptyMap

ApplyPlayers ==
    /\ pc = "players"
    /\ ret' = _extract_players(arg)
    /\ pc' = "extracted"
    /\ UNCHANGED <<connVars, loopVars, tutorVars, inbound, arg>>

SpecPlayers == InitPlayers /\ [][ApplyPlayers]_vars

(***************************************************************************)
(* parse_game_state on its own, over payloads with and without each key    *)
(***************************************************************************)
\* the "moves" part: no list, a list with a pass, a string of two
\* characters (a sized value whose elements are no moves), no key, null,
\* and a payload that is no dict
GameDataValues ==
    LET MovesParts ==
            {Payload(<<>>), Payload(GameMoves(2, TRUE)),
             Payload(<<RawOther, RawOther>>), PayloadNoMoves,
             PayloadNullMoves, PayloadNotDict}
        InfoValues ==
            {[keys |-> {}, id |-> i, width |-> w, phase |-> "finished",
              time_control |-> {"byoyomi"}, players |-> p] :
                i \in {[isnum |-> TRUE, n |-> 42, s |-> <<>>],
                       [isnum |-> FALSE, n |-> 0, s |-> <<"g", "7">>]},
                w \in {9, 0},
                p \in {PlayersAbsent, PlayersOther,
                       PlayersDict(SlotInfo("alice"), SlotAbsent),
                       PlayersList(<<EntryListColor("dave")>>)}}
    IN  {WithInfo(m, ks, info) :
            m \in MovesParts,
            ks \in SUBSET {"id", "width", "phase", "time_control"},
            info \in InfoValues}

InitState ==
    /\ pc = "state"
    /\ SessionInit
    /\ inbound = [frames |-> 0, moves |-> 0]
    /\ arg \in GameDataValues
    /\ ret = None

ApplyState ==
    /\ pc = "state"
    /\ ret' = parse_game_state(arg)
    /\ pc' = "stated"
    /\ UNCHANGED <<connVars, loopVars, tutorVars, inbound, arg>>

SpecState == InitState /\ [][ApplyState]_vars

(***************************************************************************)
(* PatternRecognizer.find_patterns and MoveAnalyzer.analyze_move           *)
(*                                                                         *)
(* Every call of the random module is an input of the operator: the call   *)
(* may return any of its outcomes.  The description and the learning       *)
(* points of an analysis are looked up from its type and phase alone and   *)
(* are left out of the record.                                             *)
(***************************************************************************)
Phases == {"opening", "middle_game", "endgame"}

\* Move.to_coords
to_coords(move) ==
    IF 0 <= move.x /\ move.x <= 18 THEN CoordOf(move.x, move.y)
    ELSE <<"(">> \o str(move.x) \o <<",">> \o str(move.y) \o <<")">>

_load_tactical_patterns ==
    <<[name |-> "Ladder", difficulty |-> "beginner"],
      [name |-> "Net", difficulty |-> "intermediate"],
      [name |-> "Snapback", difficulty |-> "intermediate"],
      [name |-> "Bamboo Joint", difficulty |-> "beginner"],
      [name |-> "Tiger's Mouth", difficulty |-> "intermediate"]>>

_load_strategic_patterns ==
    <<[name |-> "Moyo Formation", difficulty |-> "advanced"],
      [name |-> "Invasion Point", difficulty |-> "intermediate"],
      [name |-> "Extension Base", difficulty |-> "beginner"]>>

\* the outcomes of the calls random.random() < 0.3 and random.random() < 0.2
\* made by one call of find_patterns, one per pattern
TacticalDraws == [1..Len(_load_tactical_patterns) -> BOOLEAN]
StrategicDraws == [1..Len(_load_strategic_patterns) -> BOOLEAN]

\* matches[k] is the outcome of _pattern_matches_near_move for the k-th
\* tactical pattern, present[k] that of _strategic_pattern_present
find_patterns(recent_move, matches, present) ==
    LET tactical[k \in 0..Len(_load_tactical_patterns)] ==
            IF k = 0 THEN <<>>
            ELSE IF matches[k]
                 THEN Append(tactical[k - 1],
                        [type |-> "tactical",
                         pattern |-> _load_tactical_patterns[k],
                         location |-> to_coords(recent_move),
                         urgency |->
                            IF _load_tactical_patterns[k].difficulty
                                   = "beginner"
                            THEN "high" ELSE "medium"])
                 ELSE tactical[k - 1]
        found[k \in 0..Len(_load_strategic_patterns)] ==
            IF k = 0 THEN tactical[Len(_load_tactical_patterns)]
            ELSE IF present[k]
                 THEN Append(found[k - 1],
                        [type |-> "strategic",
                         pattern |-> _load_strategic_patterns[k],
                         urgency |-> "medium"])
                 ELSE found[k - 1]
    IN  found[Len(_load_strategic_patterns)]

_is_corner_area(move) ==
    (move.x <= 5 \/ move.x >= 13) /\ (move.y <= 5 \/ move.y >= 13)
_is_center_area(move) ==
    7 <= move.x /\ move.x <= 11 /\ 7 <= move.y /\ move.y <= 11
_is_edge_area(move) ==
    move.x <= 2 \/ move.x >= 16 \/ move.y <= 2 \/ move.y >= 16

\* the lists random.choice draws from in _classify_move
SideTypes(phase) ==
    CASE phase = "opening" -> {"approach", "extension", "corner"}
      [] phase = "middle_game" ->
             {"attack", "defense", "invasion", "connection"}
      [] OTHER -> {"defense", "territorial", "endgame"}

\* choice is the outcome of random.choice
_classify_move(move, phase, choice) ==
    IF _is_corner_area(move) THEN "corner"
    ELSE IF _is_center_area(move) THEN "center"
    ELSE choice

_rate_for_phase(move_type, phase) ==
    CASE phase = "opening" ->
             (CASE move_type = "corner" -> "excellent"
                [] move_type \in {"approach", "extension"} -> "good"
                [] move_type = "center" -> "questionable"
                [] move_type = "invasion" -> "premature"
                [] OTHER -> "neutral")
      [] phase = "middle_game" ->
             (CASE move_type = "attack" -> "excellent"
                [] move_type \in {"defense", "invasion", "connection"}
                       -> "good"
                [] move_type = "corner" -> "slow"
                [] OTHER -> "neutral")
      [] OTHER ->
             (CASE move_type \in {"defense", "territorial"} -> "excellent"
                [] move_type = "attack" -> "risky"
                [] move_type = "center" -> "usually small"
                [] OTHER -> "neutral")

BaseValue == 5
Clamp(v) == IF v < 1 THEN 1 ELSE IF v > 10 THEN 10 ELSE v
Jitters == -2..2

\* jitter is the outcome of random.randint(-2, 2)
_estimate_territorial_value(move, phase, jitter) ==
    Clamp(BaseValue
          + (IF phase = "opening" /\ _is_corner_area(move) THEN 2 ELSE 0)
          + (IF phase = "endgame" /\ _is_edge_area(move) THEN 3 ELSE 0)
          + jitter)

_estimate_influence_value(move, phase, jitter) ==
    Clamp(BaseValue
          + (IF _is_center_area(move) THEN 3 ELSE 0)
          + (IF phase \in {"opening", "middle_game"} THEN 1 ELSE 0)
          + jitter)

\* _rate_safety returns random.choice(safety_options)
safety_options == {"very safe", "safe", "neutral", "risky", "dangerous"}

\* draws holds the outcomes of the four random calls of one analysis
analyze_move(move, phase, draws) ==
    LET move_type == _classify_move(move, phase, draws.choice)
    IN  [coordinate |-> to_coords(move),
         type |-> move_type,
         phase_appropriateness |-> _rate_for_phase(move_type, phase),
         territorial_value |->
             _estimate_territorial_value(move, phase, draws.territorial),
         influence_value |->
             _estimate_influence_value(move, phase, draws.influence),
         safety_rating |-> draws.safety]

AnalysisDraws ==
    [choice : UNION {SideTypes(phase) : phase \in Phases},
     territorial : Jitters, influence : Jitters, safety : safety_options]

\* a corner move, a centre move and a side move on the edge
AnalysisMoves ==
    {[x |-> 3, y |-> 3, color |-> "black", move_number |-> 1],
     [x |-> 9, y |-> 9, color |-> "white", move_number |-> 2],
     [x |-> 16, y |-> 9, color |-> "black", move_number |-> 3]}

\* the same function is called twice on the same input
InitAnalysis ==
    /\ pc = "analysis"
    /\ SessionInit
    /\ inbound = [frames |-> 0, moves |-> 0]
    /\ arg \in {[fn |-> "find_patterns", move |-> m, phase |-> "opening"] :
                    m \in AnalysisMoves}
               \cup {[fn |-> "analyze_move", move |-> m, phase |-> ph] :
                         m \in AnalysisMoves, ph \in Phases}
    /\ ret = None

CallFindPatterns(matches, present) ==
    /\ pc \in {"analysis", "once"}
    /\ arg.fn = "find_patterns"
    /\ ret' = find_patterns(arg.move, matches, present)
    /\ pc' = IF pc = "analysis" THEN "once" ELSE "twice"
    /\ UNCHANGED <<connVars, loopVars, tutorVars, inbound, arg>>

CallAnalyzeMove(draws) ==
    /\ pc \in {"analysis", "once"}
    /\ arg.fn = "analyze_move"
    /\ draws.choice \in SideTypes(arg.phase)
    /\ ret' = analyze_move(arg.move, arg.phase, draws)
    /\ pc' = IF pc = "analysis" THEN "once" ELSE "twice"
    /\ UNCHANGED <<connVars, loopVars, tutorVars, inbound, arg>>

NextAnalysis ==
    \/ \E matches \in TacticalDraws, present \in StrategicDraws :
           CallFindPatterns(matches, present)
    \/ \E draws \in AnalysisDraws : CallAnalyzeMove(draws)

SpecAnalysis == InitAnalysis /\ [][NextAnalysis]_vars

(***************************************************************************)
(* Move.to_coords followed by EnhancedGoTutor._parse_coordinate, over the  *)
(* points of the board                                                     *)
(***************************************************************************)
BoardPoints ==
    {[x |-> x, y |-> y, color |-> ParityColor(x + y),
      move_number |-> x + y + 1] : x \in 0..18, y \in 0..18}

InitRoundTrip ==
    /\ pc = "coords"
    /\ SessionInit
    /\ inbound = [frames |-> 0, moves |-> 0]
    /\ arg \in BoardPoints
    /\ ret = None

ApplyRoundTrip ==
    /\ pc = "coords"
    /\ ret' = _parse_coordinate(to_coords(arg), arg.color, arg.move_number)
    /\ pc' = "round"
    /\ UNCHANGED <<connVars, loopVars, tutorVars, inbound, arg>>

SpecRoundTrip == InitRoundTrip /\ [][ApplyRoundTrip]_vars

(***************************************************************************)
(* EnhancedGoTutor._parse_coordinate on its own, over short strings        *)
(***************************************************************************)
CoordChars == {"D", "d", "I", "Z", "4", "1", "0", "x"}

\* s is a non-empty string of decimal digits: int(s) returns
IsDecimal(s) ==
    /\ Len(s) >= 1
    /\ \A k \in 1..Len(s) : \E d \in 1..Len(DigitChars) : DigitChars[d] = s[k]

\* int(coord[1:]) raised ValueError
CoordinateRaised == [raised |-> "ValueError"]

\* the outcome of the call _parse_coordinate(coord, color, move_num)
ParseCoordinateCall(coord, color, move_num) ==
    IF Len(coord) >= 2 /\ ~IsDecimal(SubSeq(coord, 2, Len(coord)))
    THEN CoordinateRaised
    ELSE _parse_coordinate(coord, color, move_num)

InitCoordinate ==
    /\ pc = "coordinate"
    /\ SessionInit
    /\ inbound = [frames |-> 0, moves |-> 0]
    /\ arg \in SeqsUpTo(CoordChars, MaxCoord)
    /\ ret = None

ApplyCoordinate ==
    /\ pc = "coordinate"
    /\ ret' = ParseCoordinateCall(arg, "black", 1)
    /\ pc' = "coordinate_parsed"
    /\ UNCHANGED <<connVars, loopVars, tutorVars, inbound, arg>>

SpecCoordinate == InitCoordinate /\ [][ApplyCoordinate]_vars

(***************************************************************************)
(* EnhancedGoTutor._determine_phase as moves are added to one tutor        *)
(***************************************************************************)
OpeningMoves == 30
MiddleGameMoves == 120

DeterminePhaseThresholdsInclusive(tutor) ==
    IF tutor.move_count <= OpeningMoves THEN "opening"
    ELSE IF tutor.move_count <= MiddleGameMoves THEN "middle_game"
    ELSE "endgame"
_determine_phase(tutor) ==
    IF tutor.move_count < OpeningMoves THEN "opening"
    ELSE IF tutor.move_count < MiddleGameMoves THEN "middle_game"
    ELSE "endgame"

InitPhase ==
    /\ pc = "phase"
    /\ SessionInit
    /\ inbound = [frames |-> 0, moves |-> 0]
    /\ arg = <<>>
    /\ ret = ""

\* one more move is added to the tutor
AddMove ==
    /\ pc \in {"phase", "phased"}
    /\ ai_tutor.move_count < MaxCount
    /\ ai_tutor' = add_move(ai_tutor, D4, ParityColor(ai_tutor.move_count))
    /\ pc' = "phase"
    /\ UNCHANGED <<connVars, loopVars, last_move_count, tutoring_interval,
                   pass_ran, stream, funVars>>

\* the phase of the tutor as it stands
DeterminePhase ==
    /\ pc = "phase"
    /\ ret' = _determine_phase(ai_tutor)
    /\ pc' = "phased"
    /\ UNCHANGED <<connVars, loopVars, tutorVars, inbound, arg>>

NextPhase == AddMove \/ DeterminePhase

SpecPhase == InitPhase /\ [][NextPhase]_vars

(***************************************************************************)
(* Properties                                                              *)
(***************************************************************************)

\* the normalized move list of a payload, when parse_game_state accepts it
Accepted(p) == Normalized[p].game_state # None
Survivors(p) == Len(Normalized[p].game_state.moves)

\* C1: an update event runs an analysis pass exactly when its payload is
\* accepted and (surviving move count - stored last move count) >=
\* tutoring_interval or surviving move count <= 5; otherwise no pass runs.
C1_PassExactlyWhenDue ==
    [][\A m \in UpdateFramesOf[inbound.moves] :
          MonitorStep(m, TRUE) =>
              (pass_ran' <=>
                  /\ Accepted(m.body.event_data)
                  /\ \/ Survivors(m.body.event_data) - last_move_count
                            >= tutoring_interval
                     \/ Survivors(m.body.event_data) <= 5)]_vars

\* C1 witness: an event beyond the first five moves ran a pass because the
\* interval had elapsed, and a later one ran none.
C1_Witness ==
    /\ pc = "monitoring"
    /\ pass_ran
    /\ last_move_count = 8
    /\ ai_tutor.move_count = 8
    /\ message_count >= 1

\* C2: an update event that runs no analysis pass leaves the stored last
\* move count unchanged.
C2_CounterOnlyOnPass ==
    [][(RecvUpdate /\ ~pass_ran') => last_move_count' = last_move_count]_vars

\* C3: with tutoring_interval = 5 and events carrying 1, 2, 3, ... moves, a
\* pass runs at each of 1..5 moves, none at 6 and one at 10.
C3_StreamOfSingleMoves ==
    tutoring_interval = 5 =>
        /\ stream \in 1..5 => pass_ran
        /\ stream = 6 => ~pass_ran
        /\ stream = 10 => pass_ran

\* C4: the move numbers of the normalized moves are 1, 2, ..., k in list
\* order, whatever raw entries were dropped.
C4_NumbersContiguous ==
    pc = "parsed" => \A k \in 1..Len(ret) : ret[k].move_number = k

\* C5: every move in the output of _parse_moves has 0 <= x <= 18 and
\* 0 <= y <= 18, so a raw move off the board or without a coordinate is
\* never stored.
C5_CoordinatesOnBoard ==
    pc = "parsed" =>
        /\ \A k \in 1..Len(ret) : ret[k].x \in 0..18 /\ ret[k].y \in 0..18
        /\ Len(ret) <= Cardinality({i \in 1..Len(arg) :
                           /\ arg[i].form \in {"list", "dict"}
                           /\ arg[i].x \in 0..18
                           /\ arg[i].y \in 0..18})

\* C5 witness: a list with an entry off the board and entries on it was
\* normalized, and fewer moves came out than went in.
C5_Witness ==
    /\ pc = "parsed"
    /\ Len(arg) = 3
    /\ \E i \in 1..Len(arg) : arg[i] = RawList(2, 3, 19, "black")
    /\ \E i \in 1..Len(arg) : arg[i] = RawDict({"y", "color"}, 3, 3, "white")
    /\ Len(ret) = 1

\* C6: the window D4 Q16 R14 Q14 returns "3-4 Point Approach" with
\* matched_moves = 4 and is_complete; the window D4 Q16 returns the same
\* record with matched_moves = 2, not complete, and variations.
C6_JosekiExamples ==
    pc = "checked" =>
        /\ arg = <<D4, Q16, R14, Q14>> =>
              /\ ret # None
              /\ ret.name = "3-4 Point Approach"
              /\ ret.matched_moves = 4
              /\ ret.is_complete
        /\ arg = <<D4, Q16>> =>
              /\ ret # None
              /\ ret.name = "3-4 Point Approach"
              /\ ret.matched_moves = 2
              /\ ~ret.is_complete
              /\ ret.variations # <<>>

\* the lengths of the contiguous sub-windows of window that equal a prefix
\* of the record's move sequence
AlignedLengths(window, record) ==
    {b - a + 1 : <<a, b>> \in
        {ab \in (1..Len(window)) \X (1..Len(window)) :
            /\ ab[1] <= ab[2]
            /\ ab[2] - ab[1] + 1 <= Len(record.moves)
            /\ SubSeq(window, ab[1], ab[2])
                  = SubSeq(record.moves, 1, ab[2] - ab[1] + 1)}}

\* C7: check_joseki returns the first record in catalog order that has a
\* contiguous sub-window of the window equal to a prefix of its sequence,
\* with matched_moves the length of such a sub-window; it returns None
\* exactly when the window has fewer than 2 moves or no record aligns.
C7_FirstAlignedRecord ==
    pc = "checked" =>
        LET josekis == _load_joseki_patterns
            aligned == {j \in 1..Len(josekis) :
                           AlignedLengths(arg, josekis[j]) # {}}
        IN  IF Len(arg) < 2 \/ aligned = {} THEN ret = None
            ELSE /\ ret # None
                 /\ LET j == CHOOSE a \in aligned : \A b \in aligned : a <= b
                    IN  /\ ret.name = josekis[j].name
                        /\ ret.matched_moves \in AlignedLengths(arg, josekis[j])

\* C8: whenever the loop handles a keep-alive frame "2" and the transport
\* stays open for a next frame, "3" has been sent in reply.
C8_PingAnswered ==
    [][(RecvPing /\ transport' = "open") => replies' = <<PongFrame>>]_vars

\* C8 witness: the loop has answered a keep-alive frame and is ready to
\* receive the next frame.
C8_Witness ==
    /\ pc = "monitoring"
    /\ transport = "open"
    /\ replies = <<PongFrame>>

\* C9: when the subscribe frame has been sent, the session had received a
\* frame beginning with "0" and had replied "40" before subscribing.
C9_HandshakeBeforeSubscribe ==
    (\E k \in 1..Len(sent) : sent[k] = SubscribeFrame) =>
        /\ startswith(welcome.text, <<"0">>)
        /\ \E k \in 1..Len(sent) :
              /\ sent[k] = SubscribeFrame
              /\ \E a \in 1..(k - 1) : sent[a] = AckFrame

C11_OtherEventsInert ==
    [][\A m \in OtherEventFrames :
          MonitorStep(m, TRUE) =>
              /\ UNCHANGED <<last_move_count, ai_tutor, pass_ran, stream,
                             tutoring_interval, sent>>
              /\ replies' = <<>>
              /\ event_type' = m.body.event_type]_vars

\* C11 witness: an event of another type was the latest event received
\* while the tutor held the three moves of an earlier pass.
C11_Witness ==
    /\ pc = "monitoring"
    /\ event_type = "game/chat"
    /\ last_move_count = 3
    /\ ai_tutor.move_count = 3
    /\ pass_ran

\* C12: once the transport is closed or has failed, monitor_game ends: no
\* exception reaches the caller, the only step of a monitoring loop whose
\* transport is closed is the return, which processes and sends nothing,
\* that return does happen, and after it nothing changes any more.
C12_ClosedTransportEndsMonitor ==
    /\ [](pc # "raised")
    /\ [][(pc = "monitoring" /\ transport = "closed")
              => /\ pc' = "closed"
                 /\ UNCHANGED <<sent, loopVars, tutorVars>>]_vars
    /\ [][pc = "closed" => UNCHANGED vars]_vars
    /\ ((pc = "monitoring" /\ transport = "closed") ~> (pc = "closed"))

\* C12 witness: monitor_game has returned after the transport failed in the
\* middle of a session that had received frames and run a pass.
C12_Witness ==
    /\ pc = "closed"
    /\ transport = "closed"
    /\ message_count >= 2
    /\ last_move_count = 3
    /\ pass_ran

\* C13: the receive loop of monitor_game is left only because the transport
\* closed or failed (the code has no cancellation signal of its own); it is
\* never left while the transport is still open.
C13_LoopEndsOnlyOnClose ==
    [][(pc = "monitoring" /\ pc' # "monitoring")
           => (pc' = "closed" /\ transport' = "closed")]_vars

\* C14: while authenticate() has not succeeded the session is either not yet
\* started or has returned failure, and it has opened no websocket, sent no
\* subscription (or any other frame) and consumed no frame.
C14_NoSocketWithoutAuthentication ==
    ~is_authenticated =>
        /\ pc \in {"start", "failed"}
        /\ websocket = FALSE
        /\ transport = "none"
        /\ welcome = NoFrame
        /\ sent = <<>>
        /\ message_count = 0
        /\ event_type = ""

\* C14 witness: start_tutoring_session has returned failure because
\* authenticate() failed.
C14_Witness ==
    /\ pc = "failed"
    /\ ~is_authenticated
    /\ tutoring_interval = DemoTutoringInterval

\* C15: the step that takes an update frame from the transport also carries
\* the whole handling of that frame -- normalization, sampling decision,
\* analysis pass and counter update are done when the step ends, before any
\* later frame is taken -- and the held state changes in no other step: a
\* change of the last move count, the tutor or the pass record belongs to
\* exactly one received frame, an update event.
C15_HandledBeforeNextFrame ==
    [][/\ \A m \in UpdateFramesOf[inbound.moves] :
              (MonitorStep(m, TRUE) /\ Accepted(m.body.event_data)) =>
                  /\ message_count' = message_count + 1
                  /\ last_move_count' = Survivors(m.body.event_data)
                  /\ pass_ran' = _should_provide_tutoring(
                                     Survivors(m.body.event_data),
                                     last_move_count, tutoring_interval)
                  /\ ai_tutor' = IF pass_ran'
                                 THEN Normalized[m.body.event_data].tutor
                                 ELSE ai_tutor
       /\ (<<last_move_count, ai_tutor, pass_ran>>'
               # <<last_move_count, ai_tutor, pass_ran>>)
              => /\ pc = "monitoring"
                 /\ message_count' = message_count + 1
                 /\ event_type' \in UpdateEvents]_vars

\* C15 witness: two update events were handled one after the other: the
\* first ran a pass over three moves, the second only moved the counter.
C15_Witness ==
    /\ pc = "monitoring"
    /\ message_count = 2
    /\ last_move_count = 6
    /\ ai_tutor.move_count = 3
    /\ ~pass_ran

\* C16: the history held by the tutor after a pass is the normalized move
\* list of the event that triggered the pass: as many entries, the same x, y
\* and colour in the same order, numbered 1..k, whatever earlier events held.
C16_HistoryIsTriggeringList ==
    [][\A m \in UpdateFramesOf[inbound.moves] :
          (MonitorStep(m, TRUE) /\ pass_ran') =>
              LET moves == Normalized[m.body.event_data].game_state.moves
                  history == ai_tutor'.game_history
              IN  /\ Len(history) = Len(moves)
                  /\ ai_tutor'.move_count = Len(moves)
                  /\ \A k \in 1..Len(moves) :
                        /\ history[k].x = moves[k].x
                        /\ history[k].y = moves[k].y
                        /\ history[k].color = moves[k].color
                        /\ history[k].move_number = k]_vars

\* C16 witness: a pass over one move was followed by a pass over the six
\* surviving moves of a later event.
C16_Witness ==
    /\ pc = "monitoring"
    /\ message_count = 2
    /\ pass_ran
    /\ stream = -1
    /\ last_move_count = 6
    /\ Len(ai_tutor.game_history) = 6

\* the raw move m carries a colour of its own: a third list element or a
\* "color" key
CarriesColor(m) ==
    \/ m.form = "list" /\ m.len >= 3
    \/ m.form = "dict" /\ "color" \in m.keys

\* C17: every normalized move whose raw move carries a colour has that
\* colour, in the list form and in the dict form alike; a normalized move
\* whose raw move carries none is black at an even raw index and white at
\* an odd one.
C17_CarriedColourKept ==
    pc = "parsed" =>
        \A k \in 1..Len(ret) :
            LET i == ret[k].move_number - 1
                m == arg[i + 1]
            IN  ret[k].color = IF CarriesColor(m) THEN m.color
                               ELSE ParityColor(i)

\* C18: the map returned by _extract_players has a name for black and a
\* name for white and no other entry, for every payload; when the payload
\* has no "players" key the names are "Black Player" and "White Player".
C18_OneNamePerColour ==
    pc = "extracted" =>
        /\ ret # PlayersRaised
        /\ DOMAIN ret = {"black", "white"}
        /\ arg.info.players.kind = "absent" => ret = Placeholders

\* the payloads on which parse_game_state gives up: what is no dict has no
\* .get, a "moves" value that is null has no len(), and a list entry of
\* "players" whose colour is a list cannot be a key of the players map
GivenUp(game_data) ==
    \/ ~game_data.isdict
    \/ game_data.has_moves /\ ~game_data.moves_is_list
    \/ /\ game_data.info.players.kind = "list"
       /\ \E k \in 1..Len(game_data.info.players.entries) :
             LET player == game_data.info.players.entries[k]
             IN  /\ player.isdict
                 /\ ~player.hashable
                 /\ PyOr(player.username, player.name) # ""

\* C19 as stated: parse_game_state returns a game state for every payload;
\* it never gives up on the whole payload.
C19_AlwaysAGameState ==
    pc = "stated" => ret # None

\* C19, amended: parse_game_state raises nothing; it returns None exactly
\* for the payloads it cannot read at all, and otherwise a game state in
\* which every missing key has its default -- "unknown", 19, "playing", an
\* empty time control, no moves, the placeholder players -- and every key
\* that is present is passed through as it is.
C19_DefaultsOrNone ==
    pc = "stated" =>
        /\ (ret = None) <=> GivenUp(arg)
        /\ ret # None =>
              /\ "id" \notin arg.info.keys => ret.game_id = Unknown
              /\ "width" \notin arg.info.keys
                     => ret.board_size = DefaultBoardSize
              /\ "width" \in arg.info.keys
                     => ret.board_size = arg.info.width
              /\ "phase" \notin arg.info.keys
                     => ret.current_phase = "playing"
              /\ "time_control" \notin arg.info.keys
                     => ret.time_control = {}
              /\ "players" \notin arg.info.keys
                     => ret.players = Placeholders
              /\ ~arg.has_moves => ret.move_count = 0 /\ ret.moves = <<>>
              /\ arg.has_moves => ret.move_count = Len(arg.moves)

\* C19 witness: a payload without any of the keys was turned into a game
\* state made of the defaults.
C19_Witness ==
    /\ pc = "stated"
    /\ arg = PayloadNoMoves
    /\ ret # None
    /\ ret.board_size = DefaultBoardSize
    /\ ret.game_id = Unknown

\* C20: the second of two calls of find_patterns on the same board and move,
\* or of analyze_move on the same move and phase, returns what the first
\* call returned.
C20_SecondCallSameResult ==
    [][pc = "once" => ret' = ret]_vars

\* C21: for every point (x, y) of the board, the coordinate string written
\* by to_coords -- a letter of A..H, J..T and the row y + 1 -- is read back
\* by _parse_coordinate to a move with the same x and the same y.
C21_CoordinateRoundTrip ==
    pc = "round" =>
        /\ ret.x = arg.x
        /\ ret.y = arg.y
        /\ to_coords(arg)[1] # "I"
        /\ Len(letters) = 19

\* C21 witness: the point (8, 18), whose letter J follows the skipped I and
\* whose row has two digits, came back unchanged.
C21_Witness ==
    /\ pc = "round"
    /\ arg.x = 8
    /\ arg.y = 18
    /\ to_coords(arg) = <<"J", "1", "9">>
    /\ ret.x = 8
    /\ ret.y = 18

\* the order of the phases of a game
PhaseRank(phase) ==
    CASE phase = "opening" -> 0
      [] phase = "middle_game" -> 1
      [] OTHER -> 2

\* C22: _determine_phase gives a phase for every move count n: the opening
\* for n < 30, the middle game for 30 <= n < 120, the endgame for n >= 120;
\* and as moves are added the phase never goes back to an earlier one.
C22_PhaseByMoveCount ==
    /\ [](pc = "phased" =>
            LET n == ai_tutor.move_count
            IN  /\ ret \in Phases
                /\ n < 30 => ret = "opening"
                /\ (30 <= n /\ n < 120) => ret = "middle_game"
                /\ n >= 120 => ret = "endgame")
    /\ [][(ret # "" /\ ret' # ret)
              => PhaseRank(ret') > PhaseRank(ret)]_vars

\* C22 witness: the tutor holds 120 moves and is in the endgame.
C22_Witness ==
    /\ pc = "phased"
    /\ ai_tutor.move_count = 120
    /\ Len(ai_tutor.game_history) = 120
    /\ ret = "endgame"

\* the string names a point of the board: a letter of the alphabet, in
\* either case, and a row from 1 to 19
NamesBoardPoint(coord) ==
    /\ Len(coord) >= 2
    /\ \E k \in 1..Len(letters) : letters[k] = upper(coord[1])
    /\ IsDecimal(SubSeq(coord, 2, Len(coord)))
    /\ int(SubSeq(coord, 2, Len(coord))) \in 1..Len(letters)

\* C23: a coordinate string that names a point is parsed to that point and
\* to no default; every string that does not is parsed to the default
\* (3, 3), and that result differs from the result of every string that
\* names a point, so that the substitution can be seen by the caller.
C23_DefaultOnlyAndFlagged ==
    pc = "coordinate_parsed" =>
        IF NamesBoardPoint(arg)
        THEN /\ ret # CoordinateRaised
             /\ ret.x = LetterIndex(upper(arg[1]))
             /\ ret.y = int(SubSeq(arg, 2, Len(arg))) - 1
        ELSE /\ ret # CoordinateRaised
             /\ ret.x = 3
             /\ ret.y = 3
             /\ \A good \in SeqsUpTo(CoordChars, MaxCoord) :
                   NamesBoardPoint(good)
                       => ret # ParseCoordinateCall(good, "black", 1)

C25_AtMost101Frames ==
    /\ message_count <= 101
    /\ message_count > 100 => pc # "monitoring"

====
